---- MODULE Spec2Model ----
(***************************************************************************)
(* FingerprintGenerator (src/src/fingerprint-generator.js).               *)
(*                                                                         *)
(* A JavaScript string is a sequence of one-character strings, so that     *)
(* startsWith, slice, split and JSON.parse are computed on the characters. *)
(* A JavaScript value is a record [k, s, e]: k its kind, s its characters  *)
(* (strings; the digits of a number; the word of a boolean) and e its      *)
(* entries in enumeration order (objects and arrays), each [key, val].     *)
(***************************************************************************)
EXTENDS Integers, Sequences, FiniteSets, TLC

\* ---------------------------------------------------------------- bounds
\* Longest locales array of an options value.
MaxLocales == 11
\* Most comma-separated segments of a generated Accept-Language value.
MaxSegments == 3

\* ------------------------------------------------------ program constants
STRINGIFIED_PREFIX == <<"*","S","T","R","I","N","G","I","F","I","E","D","*">>
MISSING_VALUE_DATASET_TOKEN ==
    <<"*","M","I","S","S","I","N","G","_","V","A","L","U","E","*">>

\* The names the code reads and writes.
pluginCharacteristics ==
    <<"p","l","u","g","i","n","C","h","a","r","a","c","t","e","r","i","s","t","i","c","s">>
screenCharacteristics ==
    <<"s","c","r","e","e","n","C","h","a","r","a","c","t","e","r","i","s","t","i","c","s">>
languages == <<"l","a","n","g","u","a","g","e","s">>

\* ------------------------------------------------------ JavaScript values
Mk(kind, chars, entries) == [k |-> kind, s |-> chars, e |-> entries]
Undefined == Mk("undefined", <<>>, <<>>)
Null == Mk("null", <<>>, <<>>)
Str(chars) == Mk("string", chars, <<>>)
Num(digits) == Mk("number", digits, <<>>)
Bool(word) == Mk("boolean", word, <<>>)
Arr(entries) == Mk("array", <<>>, entries)
Obj(entries) == Mk("object", <<>>, entries)
Entry(key, val) == [key |-> key, val |-> val]

Digit == {"0","1","2","3","4","5","6","7","8","9"}
DigitChar == <<"0","1","2","3","4","5","6","7","8","9">>

RECURSIVE IndexKey(_)
\* The property name of array index n: its decimal digits.
IndexKey(n) ==
    IF n < 10 THEN <<DigitChar[n + 1]>>
    ELSE IndexKey(n \div 10) \o <<DigitChar[(n % 10) + 1]>>

\* String.prototype.startsWith
StartsWith(str, prefix) ==
    /\ Len(str) >= Len(prefix)
    /\ SubSeq(str, 1, Len(prefix)) = prefix

\* String.prototype.slice(n)
Slice(str, n) == SubSeq(str, n + 1, Len(str))

\* Object property assignment: an existing key keeps its place.
Put(entries, key, val) ==
    IF \E i \in 1..Len(entries) : entries[i].key = key
    THEN [i \in 1..Len(entries) |->
            IF entries[i].key = key THEN Entry(key, val) ELSE entries[i]]
    ELSE Append(entries, Entry(key, val))

\* --------------------------------------------------------------- JSON.parse
\* The JSON texts without white space, escapes, signs, fractions or exponents.
\* A parse step returns [ok, val, next]: next is the index after the value.
ParseFail == [ok |-> FALSE, val |-> Undefined, next |-> 0]
ParseOk(val, next) == [ok |-> TRUE, val |-> val, next |-> next]

At(str, i) == IF i >= 1 /\ i <= Len(str) THEN str[i] ELSE "<eof>"

RECURSIVE ScanDigits(_, _)
\* The index after the run of digits that starts at i.
ScanDigits(str, i) ==
    IF At(str, i) \in Digit THEN ScanDigits(str, i + 1) ELSE i

RECURSIVE ScanQuote(_, _)
\* The index of the next quotation mark at or after i, 0 when there is none.
ScanQuote(str, i) ==
    IF i > Len(str) THEN 0
    ELSE IF str[i] = "\"" THEN i
    ELSE ScanQuote(str, i + 1)

Word(str, i, word) ==
    /\ i + Len(word) - 1 <= Len(str)
    /\ SubSeq(str, i, i + Len(word) - 1) = word

RECURSIVE ParseValue(_, _), ParseElements(_, _, _), ParseMembers(_, _, _)
ParseValue(str, i) ==
    LET c == At(str, i) IN
    CASE c = "\"" ->
            LET j == ScanQuote(str, i + 1) IN
            IF j = 0 THEN ParseFail
            ELSE ParseOk(Str(SubSeq(str, i + 1, j - 1)), j + 1)
      [] c \in Digit ->
            LET j == ScanDigits(str, i) IN
            IF c = "0" /\ j > i + 1 THEN ParseFail
            ELSE ParseOk(Num(SubSeq(str, i, j - 1)), j)
      [] c = "[" ->
            IF At(str, i + 1) = "]" THEN ParseOk(Arr(<<>>), i + 2)
            ELSE ParseElements(str, i + 1, <<>>)
      [] c = "{" ->
            IF At(str, i + 1) = "}" THEN ParseOk(Obj(<<>>), i + 2)
            ELSE ParseMembers(str, i + 1, <<>>)
      [] c = "n" ->
            IF Word(str, i, <<"n","u","l","l">>) THEN ParseOk(Null, i + 4)
            ELSE ParseFail
      [] c = "t" ->
            IF Word(str, i, <<"t","r","u","e">>)
            THEN ParseOk(Bool(<<"t","r","u","e">>), i + 4)
            ELSE ParseFail
      [] c = "f" ->
            IF Word(str, i, <<"f","a","l","s","e">>)
            THEN ParseOk(Bool(<<"f","a","l","s","e">>), i + 5)
            ELSE ParseFail
      [] OTHER -> ParseFail

ParseElements(str, i, acc) ==
    LET r == ParseValue(str, i) IN
    IF ~r.ok THEN ParseFail
    ELSE LET more == Append(acc, Entry(IndexKey(Len(acc)), r.val)) IN
         CASE At(str, r.next) = "," -> ParseElements(str, r.next + 1, more)
           [] At(str, r.next) = "]" -> ParseOk(Arr(more), r.next + 1)
           [] OTHER -> ParseFail

ParseMembers(str, i, acc) ==
    IF At(str, i) # "\"" THEN ParseFail
    ELSE
    LET j == ScanQuote(str, i + 1) IN
    IF j = 0 \/ At(str, j + 1) # ":" THEN ParseFail
    ELSE
    LET r == ParseValue(str, j + 2) IN
    IF ~r.ok THEN ParseFail
    ELSE LET more == Put(acc, SubSeq(str, i + 1, j - 1), r.val) IN
         CASE At(str, r.next) = "," -> ParseMembers(str, r.next + 1, more)
           [] At(str, r.next) = "}" -> ParseOk(Obj(more), r.next + 1)
           [] OTHER -> ParseFail

\* JSON.parse(str): [ok, val]; ~ok is the SyntaxError it throws.
JSONParse(str) ==
    LET r == ParseValue(str, 1) IN
    IF r.ok /\ r.next = Len(str) + 1
    THEN [ok |-> TRUE, val |-> r.val]
    ELSE [ok |-> FALSE, val |-> Undefined]

\* JSON.stringify(val), the encoding the network definition's values were
\* written with (strings without quotation marks or backslashes).
RECURSIVE JSONStringify(_), StringifyEntries(_, _, _)
JSONStringify(val) ==
    CASE val.k = "string" -> <<"\"">> \o val.s \o <<"\"">>
      [] val.k = "number" -> val.s
      [] val.k = "boolean" -> val.s
      [] val.k = "array" -> <<"[">> \o StringifyEntries(val.e, 1, FALSE) \o <<"]">>
      [] val.k = "object" -> <<"{">> \o StringifyEntries(val.e, 1, TRUE) \o <<"}">>
      [] OTHER -> <<"n","u","l","l">>

StringifyEntries(entries, i, keyed) ==
    IF i > Len(entries) THEN <<>>
    ELSE (IF i > 1 THEN <<",">> ELSE <<>>)
         \o (IF keyed THEN <<"\"">> \o entries[i].key \o <<"\"", ":">> ELSE <<>>)
         \o JSONStringify(entries[i].val)
         \o StringifyEntries(entries, i + 1, keyed)

\* ------------------------------------------------------- property access
\* key in val, for an object val
Has(val, key) == \E i \in 1..Len(val.e) : val.e[i].key = key

\* The keys for (const attribute in val) visits, in order: the entries of an
\* object or an array, the indices of a string, nothing for any other value.
OwnKeys(val) ==
    IF val.k = "string" THEN [i \in 1..Len(val.s) |-> IndexKey(i - 1)]
    ELSE [i \in 1..Len(val.e) |-> val.e[i].key]

\* val[key] of a value that is neither null nor undefined (inherited
\* properties such as length are not among the keys read here).
Get(val, key) ==
    IF val.k = "string"
    THEN IF \E i \in 1..Len(val.s) : IndexKey(i - 1) = key
         THEN Str(<<val.s[CHOOSE i \in 1..Len(val.s) : IndexKey(i - 1) = key]>>)
         ELSE Undefined
    ELSE IF Has(val, key)
         THEN val.e[CHOOSE i \in 1..Len(val.e) : val.e[i].key = key].val
         ELSE Undefined

\* val[key] = x
Set(val, key, x) == Mk(val.k, val.s, Put(val.e, key, x))

\* delete val[key]
Delete(val, key) ==
    Mk(val.k, val.s, SelectSeq(val.e, LAMBDA en : en.key # key))

\* Reading a property of null or undefined throws a TypeError.
Nullish(val) == val.k \in {"null", "undefined"}

\* ------------------------------------------------------ option validation
\* What ow reads of an option's value: its type and, of an array, its length
\* and the type of its elements.
Field(type, elems, len) == [type |-> type, elems |-> elems, len |-> len]

\* headerGeneratorOptionsShape: every key optional; browsers an array of
\* browser specifications or strings, the other arrays of strings.
ShapeKeys == {"browsers", "operatingSystems", "devices", "locales", "httpVersion"}

FieldMatches(key, field) ==
    CASE key = "browsers" ->
            /\ field.type = "array"
            /\ field.len > 0 => field.elems \in {"browserSpecification", "string"}
      [] key \in {"operatingSystems", "devices", "locales"} ->
            /\ field.type = "array"
            /\ field.len > 0 => field.elems = "string"
      [] key = "httpVersion" -> field.type = "string"
      [] OTHER -> FALSE

\* ow.object.partialShape: keys outside the shape are let through.
PartialShape(options) ==
    \A key \in DOMAIN options \cap ShapeKeys : FieldMatches(key, options[key])

\* ow(options, 'HeaderGeneratorOptions', ow.object.exactShape(shape)) passes.
ExactShape(options) ==
    /\ DOMAIN options \subseteq ShapeKeys
    /\ \A key \in DOMAIN options : FieldMatches(key, options[key])

\* ------------------------------------------------------------ header reads
NoHeaders == [name \in {} |-> <<>>]

HeaderValue(headers, name) ==
    IF name \in DOMAIN headers THEN Str(headers[name]) ELSE Undefined

\* The lower-case key read first.
UserAgentLowerFirst(headers) ==
    IF "user-agent" \in DOMAIN headers
    THEN HeaderValue(headers, "user-agent")
    ELSE HeaderValue(headers, "User-Agent")

\* "User-Agent" in headers ? headers["User-Agent"] : headers["user-agent"]
UserAgentOf(headers) ==
    IF "User-Agent" \in DOMAIN headers
    THEN HeaderValue(headers, "User-Agent")
    ELSE HeaderValue(headers, "user-agent")

\* "Accept-Language" in headers ? headers["Accept-Language"]
\*                              : headers["accept-language"]
AcceptLanguageOf(headers) ==
    IF "Accept-Language" \in DOMAIN headers
    THEN HeaderValue(headers, "Accept-Language")
    ELSE HeaderValue(headers, "accept-language")

userAgent == <<"u","s","e","r","A","g","e","n","t">>

\* The observed variables handed to generateSample.
Observed(value) == Obj(<<Entry(userAgent, value)>>)

\* ---------------------------------------------------------- normalization
Thrown(error) == [ok |-> FALSE, error |-> error, fp |-> Undefined, written |-> {}]
Done(fp, written) == [ok |-> TRUE, error |-> "", fp |-> fp, written |-> written]

\* The loop body with the missing value set to null in place of deleted.
NormalizeAttributeNull(fp, attribute) ==
    LET value == Get(fp, attribute) IN
    IF value.k = "string" /\ value.s = MISSING_VALUE_DATASET_TOKEN
    THEN Done(Set(fp, attribute, Null), {})
    ELSE IF StartsWith(value.s, STRINGIFIED_PREFIX)
    THEN LET parsed == JSONParse(Slice(value.s, Len(STRINGIFIED_PREFIX))) IN
         IF parsed.ok THEN Done(Set(fp, attribute, parsed.val), {})
         ELSE Thrown("SyntaxError")
    ELSE Done(fp, {})

\* The body of the first loop, for one attribute.
NormalizeAttribute(fp, attribute) ==
    LET value == Get(fp, attribute) IN
    IF value.k = "string" /\ value.s = MISSING_VALUE_DATASET_TOKEN
    THEN Done(Delete(fp, attribute), {})
    ELSE IF value.k # "string"
    THEN Thrown("TypeError")
    ELSE IF StartsWith(value.s, STRINGIFIED_PREFIX)
    THEN LET parsed == JSONParse(Slice(value.s, Len(STRINGIFIED_PREFIX))) IN
         IF parsed.ok THEN Done(Set(fp, attribute, parsed.val), {})
         ELSE Thrown("SyntaxError")
    ELSE Done(fp, {})

RECURSIVE NormalizeLoop(_, _, _)
NormalizeLoop(fp, keys, i) ==
    IF i > Len(keys) THEN Done(fp, {})
    ELSE LET step == NormalizeAttribute(fp, keys[i]) IN
         IF step.ok THEN NormalizeLoop(step.fp, keys, i + 1) ELSE step

\* for (const attribute in fingerprint) { ... }
Normalize(sample) == NormalizeLoop(sample, OwnKeys(sample), 1)

\* The hoisting assignment that leaves an attribute the fingerprint has alone.
HoistAttributeKeep(fp, container, attribute) ==
    IF Nullish(Get(fp, container)) THEN Thrown("TypeError")
    ELSE IF Has(fp, attribute) THEN Done(fp, {attribute})
    ELSE Done(Set(fp, attribute, Get(Get(fp, container), attribute)), {attribute})

\* fingerprint[attribute] = fingerprint[container][attribute]
HoistAttribute(fp, container, attribute) ==
    IF Nullish(Get(fp, container)) THEN Thrown("TypeError")
    ELSE Done(Set(fp, attribute, Get(Get(fp, container), attribute)), {attribute})

RECURSIVE HoistLoop(_, _, _, _, _)
HoistLoop(fp, container, keys, i, written) ==
    IF i > Len(keys) THEN Done(fp, written)
    ELSE LET step == HoistAttribute(fp, container, keys[i]) IN
         IF step.ok
         THEN HoistLoop(step.fp, container, keys, i + 1, written \cup step.written)
         ELSE step

\* if (container in fingerprint) { for (...) {...}; delete fingerprint[container] }
\* written: the attributes the loop assigned.
Hoist(fp, container) ==
    IF ~Has(fp, container) THEN Done(fp, {})
    ELSE LET loop == HoistLoop(fp, container, OwnKeys(Get(fp, container)), 1, {}) IN
         IF loop.ok THEN Done(Delete(loop.fp, container), loop.written) ELSE loop

\* ---------------------------------------------------------------- languages
RECURSIVE IndexOf(_, _, _)
\* The first index at or after i where str holds the character sep, else 0.
IndexOf(str, sep, i) ==
    IF i > Len(str) THEN 0
    ELSE IF str[i] = sep THEN i
    ELSE IndexOf(str, sep, i + 1)

RECURSIVE Split(_, _)
\* String.prototype.split for a one-character separator.
Split(str, sep) ==
    LET at == IndexOf(str, sep, 1) IN
    IF at = 0 THEN <<str>>
    ELSE <<SubSeq(str, 1, at - 1)>> \o Split(SubSeq(str, at + 1, Len(str)), sep)

\* Each locale pushed with its quality weight kept.
AcceptedLanguagesWeighted(value) == Split(value, ",")

\* for (const locale of value.split(",")) acceptedLanguages.push(locale.split(";")[0])
AcceptedLanguages(value) ==
    LET locales == Split(value, ",") IN
    [i \in 1..Len(locales) |-> Split(locales[i], ";")[1]]

\* A JavaScript array of strings.
StringArray(strings) ==
    Arr([i \in 1..Len(strings) |-> Entry(IndexKey(i - 1), Str(strings[i]))])

\* ------------------------------------------------------------------ inputs
\* The documented limit of the locales option.
LocalesLimit == 10

NoOptions == [key \in {} |-> Field("undefined", "", 0)]
LocalesOptions(n) == [key \in {"locales"} |-> Field("array", "string", n)]

\* The options values a caller passes: none, locales over the documented limit,
\* an unrecognized key (alone and beside a recognized one), a wrong type.
OptionsValues ==
    {NoOptions, LocalesOptions(MaxLocales)}
    \cup {[key \in {"proxyUrl"} |-> Field("string", "", 0)],
          [key \in {"locales", "proxyUrl"} |-> Field("array", "string", 1)],
          [key \in {"locales"} |-> Field("array", "number", 2)]}

Mozilla == <<"M","o","z","i","l","l","a">>
Opera == <<"O","p","e","r","a">>

\* The User-Agent headers of a header map: under either key, both or neither.
UserAgentHeaders ==
    {NoHeaders, "User-Agent" :> Mozilla, "user-agent" :> Opera,
     ("User-Agent" :> Mozilla) @@ ("user-agent" :> Opera)}

\* The segments of an Accept-Language value.
Locales ==
    {<<"e","n","-","U","S">>,
     <<"e","n",";","q","=","0",".","9">>,
     <<"f","r",";","q","=","0",".","8">>}

RECURSIVE Join(_, _)
\* The strings of a sequence, from the i-th on, with commas between them.
Join(strings, i) ==
    IF i > Len(strings) THEN <<>>
    ELSE strings[i] \o (IF i < Len(strings) THEN <<",">> ELSE <<>>)
         \o Join(strings, i + 1)

AcceptLanguageValues(most) ==
    {Join(locales, 1) : locales \in UNION {[1..n -> Locales] : n \in 0..most}}

\* The Accept-Language headers of a header map: every value of up to MaxSegments
\* segments under the canonical key; then no header, an empty value, a value
\* under the lower-case key alone (a segment with two semicolons, an empty
\* segment, a repeated locale) and different values under both keys.
AcceptLanguageHeaders ==
    {"Accept-Language" :> value : value \in AcceptLanguageValues(MaxSegments)}

AcceptLanguageHeadersFew ==
    {NoHeaders,
     "Accept-Language" :> <<>>,
     "accept-language" :> <<"d","e",";","q",";","x",",",",","d","e">>,
     ("Accept-Language" :> <<"e","n","-","U","S">>)
        @@ ("accept-language" :> <<"d","e">>)}

\* The header maps getHeaders returns.
HeaderMaps ==
    {("User-Agent" :> Mozilla) @@ al : al \in AcceptLanguageHeaders}
    \cup {ua @@ al : ua \in UserAgentHeaders, al \in AcceptLanguageHeadersFew}

plugins == <<"p","l","u","g","i","n","s">>
width == <<"w","i","d","t","h">>

Encoded(val) == STRINGIFIED_PREFIX \o JSONStringify(val)
Numbers123 == Arr(<<Entry(<<"0">>, Num(<<"1">>)), Entry(<<"1">>, Num(<<"2">>)),
                    Entry(<<"2">>, Num(<<"3">>))>>)

\* The raw values of a top-level attribute: missing, plain, an encoded array,
\* an encoded string that is itself the missing token.
PluginsValues ==
    {MISSING_VALUE_DATASET_TOKEN, <<"x">>, Encoded(Numbers123),
     Encoded(Str(MISSING_VALUE_DATASET_TOKEN))}

LanguagesValues ==
    {MISSING_VALUE_DATASET_TOKEN, Encoded(Arr(<<Entry(<<"0">>, Str(<<"x">>))>>))}

\* The raw values of pluginCharacteristics: missing; encoded mappings with plain,
\* encoded and missing entries, with entries named as the containers are;
\* encoded null; a plain string; text that is not JSON; a doubled prefix.
PluginCharacteristicsValues ==
    {MISSING_VALUE_DATASET_TOKEN,
     Encoded(Obj(<<Entry(plugins, Numbers123)>>)),
     Encoded(Obj(<<Entry(plugins, Str(Encoded(Numbers123)))>>)),
     Encoded(Obj(<<Entry(plugins, Str(MISSING_VALUE_DATASET_TOKEN)),
                   Entry(languages, Str(<<"x">>))>>)),
     Encoded(Obj(<<Entry(pluginCharacteristics, Null),
                   Entry(plugins, Num(<<"1">>))>>)),
     Encoded(Obj(<<Entry(screenCharacteristics,
                         Obj(<<Entry(plugins, Num(<<"2">>))>>))>>)),
     Encoded(Null),
     <<"a","b">>,
     STRINGIFIED_PREFIX \o <<"{">>,
     STRINGIFIED_PREFIX \o Encoded(Numbers123)}

PluginCharacteristicsFew ==
    {MISSING_VALUE_DATASET_TOKEN,
     Encoded(Obj(<<Entry(plugins, Numbers123)>>)),
     Encoded(Obj(<<Entry(plugins, Str(MISSING_VALUE_DATASET_TOKEN)),
                   Entry(languages, Str(<<"x">>))>>))}

ScreenCharacteristicsValues ==
    {MISSING_VALUE_DATASET_TOKEN,
     Encoded(Obj(<<Entry(plugins, Str(<<"y">>)), Entry(width, Num(<<"1">>))>>)),
     Encoded(Obj(<<Entry(width, Num(<<"1">>))>>)),
     Encoded(Obj(<<Entry(pluginCharacteristics, Str(<<"x">>))>>)),
     Encoded(Obj(<<Entry(screenCharacteristics,
                         Obj(<<Entry(width, Num(<<"2">>))>>)),
                   Entry(width, Num(<<"1">>))>>))}

ScreenCharacteristicsFew ==
    {MISSING_VALUE_DATASET_TOKEN,
     Encoded(Obj(<<Entry(plugins, Str(<<"y">>)), Entry(width, Num(<<"1">>))>>)),
     Encoded(Obj(<<Entry(width, Num(<<"1">>))>>))}

Sample(p, l, pc, sc) ==
    Obj(<<Entry(plugins, Str(p)), Entry(languages, Str(l)),
          Entry(pluginCharacteristics, Str(pc)),
          Entry(screenCharacteristics, Str(sc))>>)

\* The samples generateSample returns: every attribute present, every value a
\* string.
Samples ==
    {Sample(p, l, pc, sc) :
        p \in PluginsValues, l \in LanguagesValues,
        pc \in PluginCharacteristicsFew, sc \in ScreenCharacteristicsFew}
    \cup {Sample(p, MISSING_VALUE_DATASET_TOKEN, pc, sc) :
            p \in {MISSING_VALUE_DATASET_TOKEN, <<"x">>},
            pc \in PluginCharacteristicsValues,
            sc \in ScreenCharacteristicsValues}

\* What a collaborator's call does: it returns a value or it throws.
HeaderGeneratorOutcomes ==
    {[ok |-> TRUE, headers |-> h] : h \in HeaderMaps}
    \cup {[ok |-> FALSE, headers |-> NoHeaders]}

SamplerOutcomes ==
    {[ok |-> TRUE, sample |-> sm] : sm \in Samples}
    \cup {[ok |-> FALSE, sample |-> Undefined]}

\* ------------------------------------------------------------------- state
\* getFingerprint is synchronous; its positions are its entry and its two calls
\* of a collaborator, each of which returns a value or throws. A behaviour is
\* one construction followed by one call.
VARIABLES
    phase,        \* "new", "constructed", "constructFailed", "returned", "threw"
    error,        \* the name of the error thrown, "" when none
    ctorOptions,  \* the options the constructor was given
    callOptions,  \* the options getFingerprint was given
    calls,        \* the collaborators' constructions and calls, in order
    generated,    \* the header map getHeaders returned
    observed,     \* the observed variables generateSample was given
    sample,       \* the sample generateSample returned
    hoisted,      \* the attributes the two hoisting loops assigned
    result        \* what getFingerprint returned: [fingerprint, headers]

vars == <<phase, error, ctorOptions, callOptions, calls, generated, observed,
          sample, hoisted, result>>

NoResult == [fingerprint |-> Undefined, headers |-> NoHeaders]

Init ==
    /\ phase = "new"
    /\ error = ""
    /\ ctorOptions = NoOptions
    /\ callOptions = NoOptions
    /\ calls = <<>>
    /\ generated = NoHeaders
    /\ observed = Undefined
    /\ sample = Undefined
    /\ hoisted = {}
    /\ result = NoResult

\* constructor(options)
Construct(options) ==
    /\ phase = "new"
    /\ ctorOptions' = options
    /\ IF ExactShape(options)
       THEN /\ phase' = "constructed"
            /\ error' = ""
            /\ calls' = <<"new HeaderGenerator", "new BayesianNetwork">>
       ELSE /\ phase' = "constructFailed"
            /\ error' = "ArgumentError"
            /\ calls' = <<>>
    /\ UNCHANGED <<callOptions, generated, observed, sample, hoisted, result>>

\* What one run of getFingerprint leaves behind.
Outcome(ph, err, cs, gen, obs, sm, hs, res) ==
    [phase |-> ph, error |-> err, calls |-> cs, generated |-> gen,
     observed |-> obs, sample |-> sm, hoisted |-> hs, result |-> res]

\* Lines 82-114: the sample normalized, hoisted, given its languages, returned.
Finish(cs, headers, obs, sm) ==
    LET normal == Normalize(sm) IN
    IF ~normal.ok
    THEN Outcome("threw", normal.error, cs, headers, obs, sm, {}, NoResult)
    ELSE
    LET plugin == Hoist(normal.fp, pluginCharacteristics) IN
    IF ~plugin.ok
    THEN Outcome("threw", plugin.error, cs, headers, obs, sm, {}, NoResult)
    ELSE
    LET screen == Hoist(plugin.fp, screenCharacteristics) IN
    IF ~screen.ok
    THEN Outcome("threw", screen.error, cs, headers, obs, sm, plugin.written,
                 NoResult)
    ELSE
    LET acceptLanguageHeaderValue == AcceptLanguageOf(headers)
        written == plugin.written \cup screen.written IN
    IF acceptLanguageHeaderValue.k # "string"
    THEN Outcome("threw", "TypeError", cs, headers, obs, sm, written, NoResult)
    ELSE Outcome("returned", "", cs, headers, obs, sm, written,
                 [fingerprint |->
                      Set(screen.fp, languages,
                          StringArray(AcceptedLanguages(acceptLanguageHeaderValue.s))),
                  headers |-> headers])

Leave(out) ==
    /\ phase' = out.phase
    /\ error' = out.error
    /\ calls' = out.calls
    /\ generated' = out.generated
    /\ observed' = out.observed
    /\ sample' = out.sample
    /\ hoisted' = out.hoisted
    /\ result' = out.result

\* getFingerprint(options, requestDependentHeaders) up to its call of
\* getHeaders: the options are validated and the header generator is entered.
GetFingerprint(options) ==
    /\ phase = "constructed"
    /\ callOptions' = options
    /\ IF ExactShape(options)
       THEN Leave(Outcome("getHeaders", "", Append(calls, "getHeaders"),
                          NoHeaders, Undefined, Undefined, {}, NoResult))
       ELSE Leave(Outcome("threw", "ArgumentError", calls, NoHeaders,
                          Undefined, Undefined, {}, NoResult))
    /\ UNCHANGED ctorOptions

\* getHeaders returns hg.headers or throws: the user agent is read and the
\* sampler is entered.
GetHeadersReturns(hg) ==
    /\ phase = "getHeaders"
    /\ IF hg.ok
       THEN Leave(Outcome("generateSample", "", Append(calls, "generateSample"),
                          hg.headers, Observed(UserAgentOf(hg.headers)),
                          Undefined, {}, NoResult))
       ELSE Leave(Outcome("threw", "HeaderGeneratorError", calls, NoHeaders,
                          Undefined, Undefined, {}, NoResult))
    /\ UNCHANGED <<ctorOptions, callOptions>>

\* generateSample returns bn.sample or throws: the rest of getFingerprint.
GenerateSampleReturns(bn) ==
    /\ phase = "generateSample"
    /\ IF bn.ok
       THEN Leave(Finish(calls, generated, observed, bn.sample))
       ELSE Leave(Outcome("threw", "SamplerError", calls, generated, observed,
                          Undefined, {}, NoResult))
    /\ UNCHANGED <<ctorOptions, callOptions>>

Next ==
    \/ \E options \in OptionsValues : Construct(options)
    \/ \E options \in OptionsValues : GetFingerprint(options)
    \/ \E hg \in HeaderGeneratorOutcomes : GetHeadersReturns(hg)
    \/ \E bn \in SamplerOutcomes : GenerateSampleReturns(bn)

Spec == Init /\ [][Next]_vars

\* ------------------------------------------------------------------ claims
Range(seq) == {seq[i] : i \in 1..Len(seq)}
Returned == phase = "returned"
fingerprint == result.fingerprint

\* getHeaders has returned its header map to getFingerprint.
HeadersReturned ==
    /\ "getHeaders" \in Range(calls)
    /\ phase # "getHeaders"
    /\ error # "HeaderGeneratorError"

\* generateSample has returned its sample to getFingerprint.
SampleReturned == sample.k = "object"

IsMissing(val) == val.k = "string" /\ val.s = MISSING_VALUE_DATASET_TOKEN
IsStringified(val) == val.k = "string" /\ StartsWith(val.s, STRINGIFIED_PREFIX)

\* The value the first loop leaves for the sample's attribute: undefined for
\* the missing token, the decoded value for an encoded one, else the string.
Decoded(attribute) ==
    LET raw == Get(sample, attribute) IN
    IF IsMissing(raw) \/ raw.k # "string" THEN Undefined
    ELSE IF IsStringified(raw)
    THEN JSONParse(Slice(raw.s, Len(STRINGIFIED_PREFIX))).val
    ELSE raw

IsStringArray(val) ==
    /\ val.k = "array"
    /\ \A i \in 1..Len(val.e) :
          val.e[i].key = IndexKey(i - 1) /\ val.e[i].val.k = "string"

\* C1: every returned fingerprint has no key pluginCharacteristics or
\* screenCharacteristics, no value that is the missing token or starts with the
\* stringified prefix, and a languages key holding a sequence of strings.
C1_FingerprintClean ==
    Returned =>
        /\ ~Has(fingerprint, pluginCharacteristics)
        /\ ~Has(fingerprint, screenCharacteristics)
        /\ \A i \in 1..Len(fingerprint.e) :
              /\ ~IsMissing(fingerprint.e[i].val)
              /\ ~IsStringified(fingerprint.e[i].val)
        /\ Has(fingerprint, languages)
        /\ IsStringArray(Get(fingerprint, languages))

UserAgentAbsent(headers) ==
    "User-Agent" \notin DOMAIN headers /\ "user-agent" \notin DOMAIN headers

AcceptLanguageAbsent(headers) ==
    "Accept-Language" \notin DOMAIN headers
    /\ "accept-language" \notin DOMAIN headers

\* C2: when the header map getHeaders returned has neither User-Agent nor
\* user-agent, getFingerprint fails with MissingHeaderError, returns no result
\* and never calls generateSample.
C2_MissingUserAgentFails ==
    (HeadersReturned /\ UserAgentAbsent(generated)) =>
        /\ phase = "threw"
        /\ error = "MissingHeaderError"
        /\ result = NoResult
        /\ "generateSample" \notin Range(calls)

\* The sample passes the first loop and both hoisting steps without an error.
SampleNormalizes ==
    /\ SampleReturned
    /\ Normalize(sample).ok
    /\ Hoist(Normalize(sample).fp, pluginCharacteristics).ok
    /\ Hoist(Hoist(Normalize(sample).fp, pluginCharacteristics).fp,
             screenCharacteristics).ok

\* C3: when the header map has a User-Agent but neither Accept-Language nor
\* accept-language, a call whose sample normalizes returns a result whose
\* fingerprint.languages is the empty sequence.
C3_MissingAcceptLanguageIsEmpty ==
    (/\ phase \in {"returned", "threw"}
     /\ SampleNormalizes
     /\ ~UserAgentAbsent(generated)
     /\ AcceptLanguageAbsent(generated)) =>
        /\ phase = "returned"
        /\ Get(fingerprint, languages) = Arr(<<>>)

\* The positions of the commas of value, and the k-th of them.
Commas(value) == {i \in 1..Len(value) : value[i] = ","}
Comma(value, k) ==
    CHOOSE at \in Commas(value) :
        Cardinality({c \in Commas(value) : c < at}) = k - 1

\* The k-th comma-separated segment of value, cut before its first semicolon.
LocaleOfSegment(value, k) ==
    LET first == IF k = 1 THEN 1 ELSE Comma(value, k - 1) + 1
        last == IF k = Cardinality(Commas(value)) + 1 THEN Len(value)
                ELSE Comma(value, k) - 1
        semicolons == {i \in first..last : value[i] = ";"}
        stop == IF semicolons = {} THEN last
                ELSE (CHOOSE i \in semicolons : \A j \in semicolons : i <= j) - 1
    IN SubSeq(value, first, stop)

\* The Accept-Language value of the header map, the canonical key first.
AcceptLanguageRead ==
    IF "Accept-Language" \in DOMAIN generated
    THEN generated["Accept-Language"]
    ELSE generated["accept-language"]

EnUSExample ==
    <<"e","n","-","U","S",",","e","n",";","q","=","0",".","9",",",
      "f","r",";","q","=","0",".","8">>

\* C4: fingerprint.languages of a returned call holds, for each comma-separated
\* segment of the Accept-Language value in order, the part before the segment's
\* first semicolon, whatever the sample or the hoisting gave languages;
\* "en-US,en;q=0.9,fr;q=0.8" gives en-US, en, fr.
C4_LanguagesFromAcceptLanguage ==
    Returned =>
        LET value == AcceptLanguageRead
            langs == Get(fingerprint, languages) IN
        /\ IsStringArray(langs)
        /\ Len(langs.e) = Cardinality(Commas(value)) + 1
        /\ \A k \in 1..Len(langs.e) :
              langs.e[k].val.s = LocaleOfSegment(value, k)
        /\ value = EnUSExample =>
              [k \in 1..Len(langs.e) |-> langs.e[k].val.s]
                  = << <<"e","n","-","U","S">>, <<"e","n">>, <<"f","r">> >>

\* A returned call whose Accept-Language is the example, whose sample has a
\* languages value and whose hoisting assigned languages.
C4_Witness ==
    /\ Returned
    /\ "Accept-Language" \in DOMAIN generated
    /\ generated["Accept-Language"] = EnUSExample
    /\ ~IsMissing(Get(sample, languages))
    /\ languages \in hoisted

UnknownKey(options) == ~(DOMAIN options \subseteq ShapeKeys)
Constructions == <<"new HeaderGenerator", "new BayesianNetwork">>

\* C5: options with a key outside the shape make the constructor fail with a
\* validation error before either collaborator is constructed, and make
\* getFingerprint fail with one before either collaborator is called; no
\* result is returned.
C5_UnknownKeyRejected ==
    /\ (phase # "new" /\ UnknownKey(ctorOptions)) =>
          /\ phase = "constructFailed"
          /\ error = "ArgumentError"
          /\ calls = <<>>
          /\ result = NoResult
    /\ UnknownKey(callOptions) =>
          /\ phase = "threw"
          /\ error = "ArgumentError"
          /\ calls = Constructions
          /\ result = NoResult

\* getFingerprint was given options with an unrecognized key.
C5_Witness == phase = "threw" /\ UnknownKey(callOptions)

\* C6 as claimed: no attribute whose raw value is the missing token is a key of
\* the returned fingerprint.
C6_MissingAttributeAbsent ==
    Returned =>
        \A A \in Range(OwnKeys(sample)) :
            IsMissing(Get(sample, A)) => ~Has(fingerprint, A)

\* C6 amended: an attribute other than languages whose raw value is the missing
\* token, and that no hoisting loop assigned, is not a key of the returned
\* fingerprint.
C6_MissingAttributeAbsentUnlessRewritten ==
    Returned =>
        \A A \in Range(OwnKeys(sample)) :
            (IsMissing(Get(sample, A)) /\ A # languages /\ A \notin hoisted)
                => ~Has(fingerprint, A)

C6_Witness ==
    /\ Returned
    /\ IsMissing(Get(sample, plugins))
    /\ plugins \notin hoisted
    /\ hoisted # {}

\* The entries of the sample's container whose values are themselves encoded
\* are at the top level of the fingerprint, decoded.
HoistedDecoded(container) ==
    LET nested == Decoded(container) IN
    nested.k = "object" =>
        /\ ~Has(fingerprint, container)
        /\ \A i \in 1..Len(nested.e) :
              IsStringified(nested.e[i].val) =>
                  Get(fingerprint, nested.e[i].key)
                      = JSONParse(Slice(nested.e[i].val.s,
                                        Len(STRINGIFIED_PREFIX))).val

\* C7: the encoded entries of pluginCharacteristics (of screenCharacteristics)
\* are hoisted with their values decoded, and the container is not a key of
\* the fingerprint (no other container assigning the same names).
C7_NestedEntriesDecoded ==
    /\ (Returned /\ IsMissing(Get(sample, screenCharacteristics)))
          => HoistedDecoded(pluginCharacteristics)
    /\ (Returned /\ IsMissing(Get(sample, pluginCharacteristics)))
          => HoistedDecoded(screenCharacteristics)

TooManyLocales(options) ==
    "locales" \in DOMAIN options /\ options["locales"].len > LocalesLimit

\* C8: options whose locales has more than 10 elements are rejected with a
\* validation error by the constructor and by getFingerprint, before the
\* header generator is constructed or called.
C8_LocalesOverLimitRejected ==
    /\ (phase # "new" /\ TooManyLocales(ctorOptions)) =>
          phase = "constructFailed" /\ error = "ArgumentError" /\ calls = <<>>
    /\ TooManyLocales(callOptions) =>
          /\ phase = "threw"
          /\ error = "ArgumentError"
          /\ "getHeaders" \notin Range(calls)

\* C9: in a call that returns, generateSample was called once, after
\* getHeaders, with userAgent its only observed variable, whose value is the
\* returned headers' User-Agent (else user-agent) value; the returned headers
\* are the map getHeaders returned.
C9_SamplerConditionedOnUserAgent ==
    Returned =>
        /\ calls = Constructions \o <<"getHeaders", "generateSample">>
        /\ OwnKeys(observed) = <<userAgent>>
        /\ Get(observed, userAgent) =
              (IF "User-Agent" \in DOMAIN result.headers
               THEN Str(result.headers["User-Agent"])
               ELSE IF "user-agent" \in DOMAIN result.headers
               THEN Str(result.headers["user-agent"])
               ELSE Undefined)
        /\ result.headers = generated

\* A returned call whose headers hold both User-Agent and user-agent.
C9_Witness ==
    /\ Returned
    /\ {"User-Agent", "user-agent"} \subseteq DOMAIN result.headers
    /\ result.headers["User-Agent"] # result.headers["user-agent"]

\* The value hoisting gives K: the screenCharacteristics entry when that has
\* one, otherwise the pluginCharacteristics entry.
LastHoistedWins(K) ==
    LET P == Decoded(pluginCharacteristics)
        S == Decoded(screenCharacteristics) IN
    /\ (S.k = "object" /\ Has(S, K)) => Get(fingerprint, K) = Get(S, K)
    /\ (P.k = "object" /\ Has(P, K) /\ K \notin Range(OwnKeys(S)))
          => Get(fingerprint, K) = Get(P, K)

HoistedNames ==
    Range(OwnKeys(Decoded(pluginCharacteristics)))
    \cup Range(OwnKeys(Decoded(screenCharacteristics)))

\* C10 as claimed: for every key K of a nested mapping the returned
\* fingerprint[K] is the screenCharacteristics value if that has K, otherwise
\* the pluginCharacteristics value.
C10_LastHoistedWins ==
    Returned => \A K \in HoistedNames : LastHoistedWins(K)

\* C10 amended: the same for every K other than languages, when neither nested
\* mapping has an entry named pluginCharacteristics or screenCharacteristics.
C10_LastHoistedWinsButLanguages ==
    (/\ Returned
     /\ pluginCharacteristics \notin HoistedNames
     /\ screenCharacteristics \notin HoistedNames) =>
        \A K \in HoistedNames \ {languages} : LastHoistedWins(K)

\* Both nested mappings and the top level have plugins.
C10_Witness ==
    /\ Returned
    /\ pluginCharacteristics \notin HoistedNames
    /\ screenCharacteristics \notin HoistedNames
    /\ Has(Decoded(pluginCharacteristics), plugins)
    /\ Has(Decoded(screenCharacteristics), plugins)
    /\ ~IsMissing(Get(sample, plugins))
====
